---- MODULE Spec2Model ----
(***************************************************************************)
(* Model of the Gemini memory system:                                      *)
(*   - EnhancedMemory (src/gemini_memory_system.js): the message buffer,   *)
(*     chatHistory, the token counter, the vector store, and the async     *)
(*     methods chat / saveContext / summarizeHistory / clear;              *)
(*   - GeminiRouter (src/model_router.js) with the provider wrappers       *)
(*     hfChat / replicateChat (src/models/huggingface.js).                 *)
(*                                                                         *)
(* JavaScript runs one callback at a time, so every action below is the    *)
(* code that runs between two awaits of one async call.  Several chat      *)
(* calls may be in flight on the single exported `memory` object.          *)
(*                                                                         *)
(* A string is a sequence of pieces; a piece is a literal or an opaque     *)
(* text with its length in characters.  Concatenation is \o, the empty     *)
(* string is << >>.                                                        *)
(***************************************************************************)
EXTENDS Integers, Sequences, FiniteSets, TLC

\* ---------------------------------------------------------------- bounds
MaxTurns == 2
NumTasks == 2

Tasks == 1..NumTasks

\* ------------------------------------------------------------- strings
P(s, n) == [s |-> s, len |-> n]

RECURSIVE StrLen(_)
StrLen(str) == IF str = << >> THEN 0 ELSE Head(str).len + StrLen(Tail(str))

\* Array.prototype.slice(-k)
SliceLast(s, k) == IF Len(s) <= k THEN s ELSE SubSeq(s, Len(s) - k + 1, Len(s))

\* Array.prototype.join(sep) over an array of strings
RECURSIVE Join(_, _)
Join(strs, sep) ==
    IF strs = << >> THEN << >>
    ELSE IF Len(strs) = 1 THEN Head(strs)
    ELSE Head(strs) \o sep \o Join(Tail(strs), sep)

\* what a caller may type, what the chat model may answer, what the
\* summarizing model may answer
Inputs == { <<P("hi", 8)>>, <<P("essay", 400000)>> }
Responses == { <<P("reply", 4)>> }
Summaries == { <<P("summary", 40)>>, << >> }

\* ----------------------------------------------------- EnhancedMemory
maxTokens == 100000
SummarizeThreshold == 80000
KeepMessages == 10
KeepHistory == 5
TopK == 5

HumanMessage(text) == [role |-> "human", content |-> text]
AIMessage(text) == [role |-> "ai", content |-> text]
SystemMessage(text) == [role |-> "system", content |-> text]

SummaryPrefix == <<P("CONVERSATION SUMMARY: ", 22)>>
SummaryMessage(content) == SystemMessage(SummaryPrefix \o content)
SummaryEntry(content) == [input |-> <<P("SUMMARY", 7)>>, output |-> content]
ContextMessage(context) == SystemMessage(<<P("Relevant context:\n", 18)>> \o context)

\* `Human: ${input}\nAI: ${response}`
Conversation(input, response) ==
    <<P("Human: ", 7)>> \o input \o <<P("\nAI: ", 5)>> \o response

VARIABLES
    messages,       \* this.messages
    chatHistory,    \* this.chatHistory (timestamps are never read: left out)
    currentTokens,  \* this.currentTokens, in quarters of a token: the code
                    \* divides character counts by 4, which is exact in
                    \* quarters
    vectorStore,    \* the documents (pageContent) added to the collection
    pc,             \* per chat call: the await it is suspended at
    input,          \* per chat call: its argument
    context,        \* per chat call: the messages array handed to the model
    response,       \* per chat call: response.content
    history,        \* per chat call: the history captured by summarizeHistory
    indexFailed,    \* per chat call: addDocuments rejected in this call
    outcome,        \* per chat call: "none", "returned" or "threw"
    error,          \* per chat call: which call's rejection it threw
    started         \* number of chat calls made so far

memVars == <<messages, chatHistory, currentTokens, vectorStore, pc, input,
             context, response, history, indexFailed, outcome, error, started>>

VARIABLES
    rpc,            \* routeQuery: the await it is suspended at
    analysis,       \* routeQuery: the classification (line 57)
    modelName,      \* routeQuery: let modelName
    provider,       \* routeQuery: let provider
    rResponse,      \* routeQuery: let response
    hfModel,        \* hfChat: index of the model being tried (line 16)
    attempted,      \* the provider calls routeQuery has made, in call order,
                    \* each with what it answered
    rOutcome,       \* routeQuery: "none", "returned" or "threw"
    rError          \* routeQuery: which call's rejection it threw

routerVars == <<rpc, analysis, modelName, provider, rResponse, hfModel,
                attempted, rOutcome, rError>>

VARIABLES
    bpc,            \* getBestResponse: the await it is suspended at
    together,       \* getBestResponse: const together
    hf,             \* getBestResponse: const hf
    bHfModel,       \* hfChat called by getBestResponse: index of the model tried
    bResult,        \* getBestResponse: the record returned
    bOutcome,       \* getBestResponse: "none", "returned" or "threw"
    bError          \* getBestResponse: what it threw

bestVars == <<bpc, together, hf, bHfModel, bResult, bOutcome, bError>>

vars == <<memVars, routerVars, bestVars>>

MapSeq(s, Op(_)) == [i \in 1..Len(s) |-> Op(s[i])]

HistoryLine(item) == <<P("Human: ", 7)>> \o item.input \o <<P("\nAI: ", 5)>> \o item.output

loadMemoryVariables == Join(MapSeq(chatHistory, HistoryLine), <<P("\n\n", 2)>>)

\* ------------------------------------------------------------ values
\* a JavaScript value held in `response`: a string, null or undefined
\* ("pending": the call has not answered; "threw": it rejected)
Str(text) == [kind |-> "string", text |-> text]
Null == [kind |-> "null", text |-> << >>]
Undefined == [kind |-> "undefined", text |-> << >>]
Pending == [kind |-> "pending", text |-> << >>]
Threw == [kind |-> "threw", text |-> << >>]
\* a call that has not settled within the time a caller would allow
TimedOut == [kind |-> "timeout", text |-> << >>]

\* !value with a check for null only
NotNullOnly(v) == v.kind \in {"null", "undefined"}

\* !value
Not(v) == v.kind \in {"null", "undefined"} \/ (v.kind = "string" /\ v.text = << >>)

IsSpace(p) == p.s \in {" ", "\n", "\t"}

RECURSIVE TrimStart(_)
TrimStart(str) ==
    IF str = << >> THEN << >>
    ELSE IF IsSpace(Head(str)) THEN TrimStart(Tail(str)) ELSE str

RECURSIVE TrimEnd(_)
TrimEnd(str) ==
    IF str = << >> THEN << >>
    ELSE IF IsSpace(str[Len(str)]) THEN TrimEnd(SubSeq(str, 1, Len(str) - 1)) ELSE str

\* String.prototype.trim
Trim(str) == TrimEnd(TrimStart(str))

\* what a provider may generate: a text, a text in blanks, blanks, nothing
ProviderTexts ==
    { <<P("a", 1)>>, <<P(" ", 1), P("a", 1), P("\n", 1)>>, <<P(" ", 1)>>, << >> }

\* ------------------------------------------------------- GeminiRouter
NoAnalysis == [complexity |-> "none", type |-> "none", requiresMemory |-> FALSE,
               estimatedTokens |-> 0, requiresReasoning |-> FALSE]

\* lines 46-52
DefaultAnalysis == [complexity |-> "medium", type |-> "dialogue", requiresMemory |-> TRUE,
                    estimatedTokens |-> 500, requiresReasoning |-> FALSE]

\* the records the classifier may print
Analyses ==
    [complexity : {"simple", "medium", "complex"}, type : {"dialogue", "technical"},
     requiresMemory : {FALSE}, estimatedTokens : {100}, requiresReasoning : BOOLEAN]

\* JSON.parse of the text `null`: a value with no properties, reading one
\* throws a TypeError
JsonNull == [complexity |-> "null", type |-> "null", requiresMemory |-> FALSE,
             estimatedTokens |-> 0, requiresReasoning |-> FALSE]

\* JSON.parse of a number or a quoted string: every property routeQuery
\* reads of it is undefined
JsonScalar == [complexity |-> "undefined", type |-> "undefined", requiresMemory |-> FALSE,
               estimatedTokens |-> 0, requiresReasoning |-> FALSE]

\* what the classifier may answer: a record as JSON, bare or inside a
\* ```json fence, JSON that is no record, or text that is no JSON
ClassifierOutputs ==
    [json : Analyses, fenced : BOOLEAN, wellFormed : {TRUE}]
        \cup [json : {JsonNull, JsonScalar}, fenced : {FALSE}, wellFormed : {TRUE}]
        \cup [json : {NoAnalysis}, fenced : {FALSE}, wellFormed : {FALSE}]

\* lines 42-53: strip the fences, JSON.parse, the default when it throws
ParseAnalysis(out) == IF out.wellFormed THEN out.json ELSE DefaultAnalysis

\* getBestResponse has returned nothing yet
NoResult == [reply |-> Undefined, model |-> "undefined"]

Init ==
    /\ messages = << >>
    /\ chatHistory = << >>
    /\ currentTokens = 0
    /\ vectorStore = << >>
    /\ pc = [t \in Tasks |-> "idle"]
    /\ input = [t \in Tasks |-> << >>]
    /\ context = [t \in Tasks |-> << >>]
    /\ response = [t \in Tasks |-> << >>]
    /\ history = [t \in Tasks |-> << >>]
    /\ indexFailed = [t \in Tasks |-> FALSE]
    /\ outcome = [t \in Tasks |-> "none"]
    /\ error = [t \in Tasks |-> "none"]
    /\ started = 0
    /\ rpc = "idle"
    /\ analysis = NoAnalysis
    /\ modelName = "undefined"
    /\ provider = "undefined"
    /\ rResponse = Undefined
    /\ hfModel = 0
    /\ attempted = << >>
    /\ rOutcome = "none"
    /\ rError = "none"
    /\ bpc = "idle"
    /\ together = Undefined
    /\ hf = Undefined
    /\ bHfModel = 0
    /\ bResult = NoResult
    /\ bOutcome = "none"
    /\ bError = "none"

\* ------------------------------------------------------------- chat
\* lines 118-121: the search results joined, or "" when there are none
JoinResults(results) ==
    IF Len(results) > 0 THEN Join(results, <<P("\n\n", 2)>>) ELSE << >>

\* the array handed to model.invoke, the buffer left out when the search
\* found something
ChatMessagesColdFirst(ctx, msgs, inp) ==
    IF ctx # << >> THEN <<ContextMessage(ctx), HumanMessage(inp)>>
    ELSE msgs \o <<HumanMessage(inp)>>

\* lines 136-143: the array handed to model.invoke
ChatMessages(ctx, msgs, inp) ==
    (IF ctx # << >> THEN <<ContextMessage(ctx)>> ELSE << >>)
        \o msgs \o <<HumanMessage(inp)>>

\* what similaritySearch(query, 5) may answer: the store ranks by an
\* embedding distance the program does not control; the model lets it find
\* nothing or the TopK latest documents
SearchResults == { << >>, SliceLast(vectorStore, TopK) }

\* chat() up to its first await (line 135)
chat(t, inp) ==
    /\ pc[t] = "idle"
    /\ started' = started + 1
    /\ pc' = [pc EXCEPT ![t] = "retrieve"]
    /\ input' = [input EXCEPT ![t] = inp]
    /\ context' = [context EXCEPT ![t] = << >>]
    /\ response' = [response EXCEPT ![t] = << >>]
    /\ history' = [history EXCEPT ![t] = << >>]
    /\ indexFailed' = [indexFailed EXCEPT ![t] = FALSE]
    /\ outcome' = [outcome EXCEPT ![t] = "none"]
    /\ error' = [error EXCEPT ![t] = "none"]
    /\ UNCHANGED <<messages, chatHistory, currentTokens, vectorStore>>
    /\ UNCHANGED <<routerVars, bestVars>>

\* lines 136-145: build the messages and call the model
BuildAndInvoke(t, ctx) ==
    /\ context' = [context EXCEPT ![t] = ChatMessages(ctx, messages, input[t])]
    /\ pc' = [pc EXCEPT ![t] = "invoke"]
    /\ UNCHANGED <<messages, chatHistory, currentTokens, vectorStore, input,
                   response, history, indexFailed, outcome, error, started>>
    /\ UNCHANGED <<routerVars, bestVars>>

\* similaritySearch resolved (lines 117-121)
SearchReturns(t, results) ==
    /\ pc[t] = "retrieve"
    /\ BuildAndInvoke(t, JoinResults(results))

\* similaritySearch rejected: caught, "" (lines 122-125)
SearchThrows(t) ==
    /\ pc[t] = "retrieve"
    /\ BuildAndInvoke(t, << >>)

\* lines 50-57 of saveContext: both pushes, before the first await
PushMessages(msgs, inp, resp) == msgs \o <<HumanMessage(inp), AIMessage(resp)>>

PushHistory(hist, inp, resp) == Append(hist, [input |-> inp, output |-> resp])

\* model.invoke resolved (line 145); saveContext runs up to line 61
ModelReturns(t, resp) ==
    /\ pc[t] = "invoke"
    /\ response' = [response EXCEPT ![t] = resp]
    /\ messages' = PushMessages(messages, input[t], resp)
    /\ chatHistory' = PushHistory(chatHistory, input[t], resp)
    /\ context' = [context EXCEPT ![t] = << >>]
    /\ pc' = [pc EXCEPT ![t] = "index"]
    /\ UNCHANGED <<currentTokens, vectorStore, input, history,
                   indexFailed, outcome, error, started>>
    /\ UNCHANGED <<routerVars, bestVars>>

\* the locals of a chat call that has ended are gone
EndCall(t) ==
    /\ pc' = [pc EXCEPT ![t] = "idle"]
    /\ input' = [input EXCEPT ![t] = << >>]
    /\ context' = [context EXCEPT ![t] = << >>]
    /\ history' = [history EXCEPT ![t] = << >>]

\* an awaited call rejected and nothing caught it: chat() rejects
Throw(t, what) ==
    /\ EndCall(t)
    /\ outcome' = [outcome EXCEPT ![t] = "threw"]
    /\ error' = [error EXCEPT ![t] = what]

\* saveContext returns and chat returns response.content (line 151)
Return(t) ==
    /\ EndCall(t)
    /\ outcome' = [outcome EXCEPT ![t] = "returned"]
    /\ error' = error

\* model.invoke rejected (line 145)
ModelThrows(t) ==
    /\ pc[t] = "invoke"
    /\ Throw(t, "model")
    /\ UNCHANGED <<messages, chatHistory, currentTokens, vectorStore,
                   response, indexFailed, started>>
    /\ UNCHANGED <<routerVars, bestVars>>

\* line 74
AddTokens(tokens, inp, resp) == tokens + StrLen(inp) + StrLen(resp)

\* line 75 with >= for >
OverThresholdInclusive(tokens) == tokens >= 4 * SummarizeThreshold

\* line 75 (the counter is in quarters of a token)
OverThreshold(tokens) == tokens > 4 * SummarizeThreshold

\* lines 74-77, then summarizeHistory up to its first await (lines 89-90)
CountAndCheck(t) ==
    /\ currentTokens' = AddTokens(currentTokens, input[t], response[t])
    /\ IF OverThreshold(currentTokens')
       THEN /\ history' = [history EXCEPT ![t] = loadMemoryVariables]
            /\ pc' = [pc EXCEPT ![t] = "summarizeHistory"]
            /\ UNCHANGED <<input, context, outcome, error>>
       ELSE Return(t)
    /\ UNCHANGED <<messages, chatHistory, response, started>>
    /\ UNCHANGED <<routerVars, bestVars>>

\* summarizeHistory resumes with the history (lines 90-97): nothing to
\* summarize, or the call of the summarizing model
SummarizeHistoryResumes(t) ==
    /\ pc[t] = "summarizeHistory"
    /\ IF history[t] = << >>
       THEN Return(t)
       ELSE /\ pc' = [pc EXCEPT ![t] = "summarize"]
            /\ UNCHANGED <<input, context, history, outcome, error>>
    /\ UNCHANGED <<messages, chatHistory, currentTokens, vectorStore,
                   response, indexFailed, started>>
    /\ UNCHANGED <<routerVars, bestVars>>

\* addDocuments resolved (lines 61-69)
AddDocumentsReturns(t) ==
    /\ pc[t] = "index"
    /\ vectorStore' = Append(vectorStore, Conversation(input[t], response[t]))
    /\ indexFailed' = indexFailed
    /\ CountAndCheck(t)

\* addDocuments rejected with no try around it
AddDocumentsThrowsUncaught(t) ==
    /\ pc[t] = "index"
    /\ indexFailed' = [indexFailed EXCEPT ![t] = TRUE]
    /\ EndCall(t)
    /\ outcome' = [outcome EXCEPT ![t] = "threw"]
    /\ error' = [error EXCEPT ![t] = "index"]
    /\ UNCHANGED <<messages, chatHistory, currentTokens, vectorStore,
                   response, started>>
    /\ UNCHANGED <<routerVars, bestVars>>

\* addDocuments rejected: caught and logged (lines 70-72)
AddDocumentsThrows(t) ==
    /\ pc[t] = "index"
    /\ vectorStore' = vectorStore
    /\ indexFailed' = [indexFailed EXCEPT ![t] = TRUE]
    /\ CountAndCheck(t)

\* lines 101-104 keeping an odd number of messages
SummarizedMessagesOdd(msgs, content) ==
    <<SummaryMessage(content)>> \o SliceLast(msgs, KeepMessages - 1)

\* lines 101-104
SummarizedMessages(msgs, content) ==
    <<SummaryMessage(content)>> \o SliceLast(msgs, KeepMessages)

\* lines 106-109
SummarizedHistory(hist, content) ==
    <<SummaryEntry(content)>> \o SliceLast(hist, KeepHistory)

\* the summarizing model.invoke resolved (lines 97-112)
SummaryReturns(t, content) ==
    /\ pc[t] = "summarize"
    /\ messages' = SummarizedMessages(messages, content)
    /\ chatHistory' = SummarizedHistory(chatHistory, content)
    /\ currentTokens' = StrLen(content)
    /\ Return(t)
    /\ UNCHANGED <<vectorStore, response, indexFailed, started>>
    /\ UNCHANGED <<routerVars, bestVars>>

\* the summarizing model.invoke rejected, the counter reset all the same
SummaryThrowsResetting(t) ==
    /\ pc[t] = "summarize"
    /\ EndCall(t)
    /\ outcome' = [outcome EXCEPT ![t] = "threw"]
    /\ error' = [error EXCEPT ![t] = "summarize"]
    /\ currentTokens' = 0
    /\ UNCHANGED <<messages, chatHistory, vectorStore,
                   response, indexFailed, started>>
    /\ UNCHANGED <<routerVars, bestVars>>

\* the summarizing model.invoke rejected (line 97): nothing catches it in
\* summarizeHistory, saveContext or chat
SummaryThrows(t) ==
    /\ pc[t] = "summarize"
    /\ Throw(t, "summarize")
    /\ UNCHANGED <<messages, chatHistory, currentTokens, vectorStore,
                   response, indexFailed, started>>
    /\ UNCHANGED <<routerVars, bestVars>>

\* the hot buffer, the warm summary (a message of the buffer) and the counter
Mem == [messages |-> messages, chatHistory |-> chatHistory,
        currentTokens |-> currentTokens]

ClearedKeepingCount(mem) ==
    [messages |-> << >>, chatHistory |-> << >>,
     currentTokens |-> mem.currentTokens]

\* what clear() assigns (lines 155-157)
Cleared(mem) ==
    [messages |-> << >>, chatHistory |-> << >>, currentTokens |-> 0]

clearDroppingCold ==
    /\ messages' = Cleared(Mem).messages
    /\ chatHistory' = Cleared(Mem).chatHistory
    /\ currentTokens' = Cleared(Mem).currentTokens
    /\ vectorStore' = << >>
    /\ UNCHANGED <<pc, input, context, response, history,
                   indexFailed, outcome, error, started>>
    /\ UNCHANGED <<routerVars, bestVars>>

\* lines 154-159
clear ==
    /\ messages' = Cleared(Mem).messages
    /\ chatHistory' = Cleared(Mem).chatHistory
    /\ currentTokens' = Cleared(Mem).currentTokens
    /\ UNCHANGED <<vectorStore, pc, input, context, response, history,
                   indexFailed, outcome, error, started>>
    /\ UNCHANGED <<routerVars, bestVars>>

Next ==
    \/ \E t \in Tasks, inp \in Inputs : started < MaxTurns /\ chat(t, inp)
    \/ \E t \in Tasks : SearchThrows(t)
    \/ \E t \in Tasks, results \in SearchResults : SearchReturns(t, results)
    \/ \E t \in Tasks, resp \in Responses : ModelReturns(t, resp)
    \/ \E t \in Tasks : ModelThrows(t)
    \/ \E t \in Tasks : AddDocumentsReturns(t)
    \/ \E t \in Tasks : AddDocumentsThrows(t)
    \/ \E t \in Tasks : SummarizeHistoryResumes(t)
    \/ \E t \in Tasks, content \in Summaries : SummaryReturns(t, content)
    \/ \E t \in Tasks : SummaryThrows(t)
    \/ clear

Spec == Init /\ [][Next]_vars

\* the session a request names (`sessionId` of the request body): each
\* request task stands for a caller with a session of its own
sessionId(t) == t

\* the buffer chat reads and saveContext writes for session s: the module
\* exports the one `memory` object and none of its methods takes a session
HotBuffer(s) == messages

\* one caller awaiting each chat call before the next, for conversations
\* long enough for summarizeHistory to drop turns from the buffer
MaxSeqTurns == 6

SeqNext ==
    \/ \E inp \in Inputs : started < MaxSeqTurns /\ chat(1, inp)
    \/ SearchThrows(1)
    \/ \E results \in SearchResults : SearchReturns(1, results)
    \/ \E resp \in Responses : ModelReturns(1, resp)
    \/ ModelThrows(1)
    \/ AddDocumentsReturns(1)
    \/ AddDocumentsThrows(1)
    \/ SummarizeHistoryResumes(1)
    \/ \E content \in Summaries : SummaryReturns(1, content)
    \/ SummaryThrows(1)
    \/ pc[1] = "idle" /\ clear

SeqSpec == Init /\ [][SeqNext]_vars

\* one caller, with a turn that brings the counter to the threshold exactly
\* (319996 + 4 characters are 80000 tokens)
MaxEdgeTurns == 2

EdgeInputs == Inputs \cup {<<P("brim", 319996)>>}

EdgeNext ==
    \/ \E inp \in EdgeInputs : started < MaxEdgeTurns /\ chat(1, inp)
    \/ SearchThrows(1)
    \/ \E results \in SearchResults : SearchReturns(1, results)
    \/ \E resp \in Responses : ModelReturns(1, resp)
    \/ ModelThrows(1)
    \/ AddDocumentsReturns(1)
    \/ AddDocumentsThrows(1)
    \/ SummarizeHistoryResumes(1)
    \/ \E content \in Summaries : SummaryReturns(1, content)
    \/ SummaryThrows(1)
    \/ pc[1] = "idle" /\ clear

EdgeSpec == Init /\ [][EdgeNext]_vars

\* ------------------------------------------------------ routeQuery
Attempt(name) == Append(attempted, [provider |-> name, response |-> Pending])

Answered(v) == [attempted EXCEPT ![Len(attempted)].response = v]

\* routeQuery returns (lines 119-124)
RouteReturn ==
    /\ rpc' = "idle"
    /\ rOutcome' = "returned"
    /\ rError' = rError

\* an awaited call rejected and nothing caught it: routeQuery rejects
RouteThrow(what) ==
    /\ rpc' = "idle"
    /\ rOutcome' = "threw"
    /\ rError' = what

\* routeQuery() up to its first await (line 57, line 29)
routeQuery ==
    /\ rpc = "idle"
    /\ rpc' = "classify"
    /\ analysis' = NoAnalysis
    /\ modelName' = "undefined"
    /\ provider' = "undefined"
    /\ rResponse' = Undefined
    /\ hfModel' = 0
    /\ attempted' = << >>
    /\ rOutcome' = "none"
    /\ rError' = "none"
    /\ UNCHANGED <<memVars, bestVars>>

\* the branches of lines 68 and 84 tested in the other order
FirstProviderMidFirst(a) ==
    IF a.type = "technical" \/ a.complexity = "medium"
    THEN /\ modelName' = "Llama-3.3-70B (HuggingFace)"
         /\ provider' = "HuggingFace"
         /\ attempted' = Attempt("hfChat")
         /\ rpc' = "hf"
         /\ hfModel' = 1
    ELSE IF a.requiresReasoning \/ a.complexity = "complex"
    THEN /\ modelName' = "Mistral-7B (Replicate)"
         /\ provider' = "Replicate"
         /\ attempted' = Attempt("replicateMistral")
         /\ rpc' = "mistral"
         /\ hfModel' = hfModel
    ELSE /\ modelName' = "Gemini Flash"
         /\ provider' = "Google Gemini"
         /\ attempted' = Attempt("geminiFlash")
         /\ rpc' = "flash"
         /\ hfModel' = hfModel

\* lines 68-108 up to the first provider call
FirstProvider(a) ==
    IF a.requiresReasoning \/ a.complexity = "complex"
    THEN /\ modelName' = "Mistral-7B (Replicate)"
         /\ provider' = "Replicate"
         /\ attempted' = Attempt("replicateMistral")
         /\ rpc' = "mistral"
         /\ hfModel' = hfModel
    ELSE IF a.type = "technical" \/ a.complexity = "medium"
    THEN /\ modelName' = "Llama-3.3-70B (HuggingFace)"
         /\ provider' = "HuggingFace"
         /\ attempted' = Attempt("hfChat")
         /\ rpc' = "hf"
         /\ hfModel' = 1
    ELSE /\ modelName' = "Gemini Flash"
         /\ provider' = "Google Gemini"
         /\ attempted' = Attempt("geminiFlash")
         /\ rpc' = "flash"
         /\ hfModel' = hfModel

\* classifier.invoke resolved (lines 29-53), then lines 57-106; reading
\* analysis.requiresReasoning of null (line 68) throws
ClassifierReturns(out) ==
    /\ rpc = "classify"
    /\ analysis' = ParseAnalysis(out)
    /\ IF analysis' = JsonNull
       THEN /\ RouteThrow("TypeError")
            /\ UNCHANGED <<modelName, provider, hfModel, attempted>>
       ELSE /\ FirstProvider(analysis')
            /\ UNCHANGED <<rOutcome, rError>>
    /\ UNCHANGED rResponse
    /\ UNCHANGED <<memVars, bestVars>>

\* classifier.invoke rejected (line 29): the call is outside the try
ClassifierThrows ==
    /\ rpc = "classify"
    /\ RouteThrow("classifier")
    /\ UNCHANGED <<analysis, modelName, provider, rResponse, hfModel, attempted>>
    /\ UNCHANGED <<memVars, bestVars>>

\* the fallback of lines 110-117 without lines 113-114
FinalFallbackKeepingName(v) ==
    IF Not(v)
    THEN /\ attempted' = Append(Answered(v), [provider |-> "geminiPro", response |-> Pending])
         /\ rpc' = "pro"
         /\ UNCHANGED <<modelName, provider, rOutcome, rError>>
    ELSE /\ attempted' = Answered(v)
         /\ RouteReturn
         /\ UNCHANGED <<modelName, provider>>

\* lines 110-124, with `response` being v
FinalFallback(v) ==
    IF Not(v)
    THEN /\ modelName' = "Gemini Pro (Fallback)"
         /\ provider' = "Google Gemini"
         /\ attempted' = Append(Answered(v), [provider |-> "geminiPro", response |-> Pending])
         /\ rpc' = "pro"
         /\ UNCHANGED <<rOutcome, rError>>
    ELSE /\ attempted' = Answered(v)
         /\ RouteReturn
         /\ UNCHANGED <<modelName, provider>>

\* replicateMistral answered v (line 74), then lines 77-82 and 110-124
AfterMistral(v) ==
    /\ rResponse' = v
    /\ IF Not(v)
       THEN /\ modelName' = "Llama-3.3-70B (HuggingFace)"
            /\ provider' = "HuggingFace"
            /\ attempted' = Append(Answered(v), [provider |-> "hfChat", response |-> Pending])
            /\ rpc' = "hfFallback"
            /\ hfModel' = 1
            /\ UNCHANGED <<rOutcome, rError>>
       ELSE /\ FinalFallback(v)
            /\ hfModel' = hfModel
    /\ UNCHANGED <<analysis>>
    /\ UNCHANGED <<memVars, bestVars>>

\* replicateChat answered v (line 97), then lines 110-124
AfterLlama(v) ==
    /\ rResponse' = v
    /\ FinalFallback(v)
    /\ UNCHANGED <<analysis, hfModel>>
    /\ UNCHANGED <<memVars, bestVars>>

\* replicateChat: replicate.run and the stream resolved (lines 50-64)
ReplicateReturns(text) ==
    \/ rpc = "mistral" /\ AfterMistral(Str(Trim(text)))
    \/ rpc = "llama" /\ AfterLlama(Str(Trim(text)))

\* replicateChat without its try: the rejection reaches routeQuery
ReplicateThrowsUncaught ==
    /\ rpc \in {"mistral", "llama"}
    /\ RouteThrow("replicateChat")
    /\ attempted' = Answered(Threw)
    /\ UNCHANGED <<analysis, modelName, provider, rResponse, hfModel>>
    /\ UNCHANGED <<memVars, bestVars>>

\* replicateChat: replicate.run or the stream rejected (lines 66-69)
ReplicateThrows ==
    \/ rpc = "mistral" /\ AfterMistral(Null)
    \/ rpc = "llama" /\ AfterLlama(Null)

\* hfChat answered v at line 81: lines 110-124
AfterHfFallback(v) ==
    /\ rResponse' = v
    /\ FinalFallback(v)
    /\ UNCHANGED <<analysis, hfModel>>
    /\ UNCHANGED <<memVars, bestVars>>

\* hfChat answered v at line 90: lines 93-98 and 110-124
AfterHf(v) ==
    /\ rResponse' = v
    /\ IF Not(v)
       THEN /\ modelName' = "Llama-2-70B (Replicate)"
            /\ provider' = "Replicate"
            /\ attempted' = Append(Answered(v), [provider |-> "replicateChat", response |-> Pending])
            /\ rpc' = "llama"
            /\ UNCHANGED <<rOutcome, rError>>
       ELSE FinalFallback(v)
    /\ UNCHANGED <<analysis, hfModel>>
    /\ UNCHANGED <<memVars, bestVars>>

\* the three models of hfChat (lines 10-14)
HfModels == 3

\* hfChat: hf.chatCompletion resolved with a content (lines 18-26)
HfReturns(text) ==
    \/ rpc = "hfFallback" /\ AfterHfFallback(Str(text))
    \/ rpc = "hf" /\ AfterHf(Str(text))

\* hfChat: hf.chatCompletion rejected (lines 27-33): the next model, or null
HfThrows ==
    /\ rpc \in {"hf", "hfFallback"}
    /\ IF hfModel < HfModels
       THEN /\ hfModel' = hfModel + 1
            /\ UNCHANGED <<rpc, analysis, modelName, provider, rResponse,
                           attempted, rOutcome, rError>>
            /\ UNCHANGED <<memVars, bestVars>>
       ELSE \/ rpc = "hfFallback" /\ AfterHfFallback(Null)
            \/ rpc = "hf" /\ AfterHf(Null)

\* geminiModels.fast.invoke resolved (lines 106-107), then lines 110-124
FlashReturns(text) ==
    /\ rpc = "flash"
    /\ rResponse' = Str(text)
    /\ FinalFallback(Str(text))
    /\ UNCHANGED <<analysis, hfModel>>
    /\ UNCHANGED <<memVars, bestVars>>

\* geminiModels.fast.invoke rejected (line 106)
FlashThrows ==
    /\ rpc = "flash"
    /\ RouteThrow("geminiFlash")
    /\ attempted' = Answered(Threw)
    /\ UNCHANGED <<analysis, modelName, provider, rResponse, hfModel>>
    /\ UNCHANGED <<memVars, bestVars>>

\* geminiModels.pro.invoke resolved (lines 115-124)
ProReturns(text) ==
    /\ rpc = "pro"
    /\ rResponse' = Str(text)
    /\ attempted' = Answered(Str(text))
    /\ RouteReturn
    /\ UNCHANGED <<analysis, modelName, provider, hfModel>>
    /\ UNCHANGED <<memVars, bestVars>>

\* geminiModels.pro.invoke rejected (line 115)
ProThrows ==
    /\ rpc = "pro"
    /\ RouteThrow("geminiPro")
    /\ attempted' = Answered(Threw)
    /\ UNCHANGED <<analysis, modelName, provider, rResponse, hfModel>>
    /\ UNCHANGED <<memVars, bestVars>>

\* the awaited provider call never settles (lines 74, 81, 90, 97, 106,
\* 115): no await of routeQuery, hfChat or replicateChat carries a timeout,
\* so routeQuery stays suspended on it
ProviderTimesOut ==
    /\ rpc \in {"mistral", "hfFallback", "hf", "llama", "flash", "pro"}
    /\ rpc' = "hung"
    /\ attempted' = Answered(TimedOut)
    /\ UNCHANGED <<analysis, modelName, provider, rResponse, hfModel,
                   rOutcome, rError>>
    /\ UNCHANGED <<memVars, bestVars>>

RouterNext ==
    \/ routeQuery
    \/ ProviderTimesOut
    \/ \E out \in ClassifierOutputs : ClassifierReturns(out)
    \/ ClassifierThrows
    \/ \E text \in ProviderTexts : ReplicateReturns(text)
    \/ ReplicateThrows
    \/ \E text \in ProviderTexts : HfReturns(text)
    \/ HfThrows
    \/ \E text \in ProviderTexts : FlashReturns(text)
    \/ FlashThrows
    \/ \E text \in ProviderTexts : ProReturns(text)
    \/ ProThrows

RouterSpec == Init /\ [][RouterNext]_vars

\* -------------------------------------------------- getBestResponse
\* getBestResponse returns a record (lines 10, 14, 20)
BestReturn(reply, model) ==
    /\ bpc' = "idle"
    /\ bResult' = [reply |-> reply, model |-> model]
    /\ bOutcome' = "returned"
    /\ bError' = bError

\* getBestResponse() up to its first await (line 9)
getBestResponse ==
    /\ bpc = "idle"
    /\ bpc' = "together"
    /\ together' = Undefined
    /\ hf' = Undefined
    /\ bHfModel' = 0
    /\ bResult' = NoResult
    /\ bOutcome' = "none"
    /\ bError' = "none"
    /\ UNCHANGED <<memVars, routerVars>>

\* togetherChat resolved with v (line 9), then lines 10-13. together.js is
\* not among the sources: it is taken to resolve with a text or null, as
\* hfChat and replicateChat do
TogetherReturns(v) ==
    /\ bpc = "together"
    /\ together' = v
    /\ IF Not(v)
       THEN /\ bpc' = "hf"
            /\ bHfModel' = 1
            /\ UNCHANGED <<bResult, bOutcome, bError>>
       ELSE /\ BestReturn(v, "Together AI")
            /\ bHfModel' = bHfModel
    /\ hf' = hf
    /\ UNCHANGED <<memVars, routerVars>>

\* hfChat answered v (line 13), then lines 14-17: askDeepSeek is neither
\* imported nor declared, so evaluating line 17 throws a ReferenceError
AfterBestHf(v) ==
    /\ hf' = v
    /\ IF Not(v)
       THEN /\ bpc' = "idle"
            /\ bOutcome' = "threw"
            /\ bError' = "ReferenceError"
            /\ bResult' = bResult
       ELSE BestReturn(v, "HuggingFace")
    /\ UNCHANGED <<together, bHfModel>>
    /\ UNCHANGED <<memVars, routerVars>>

\* hfChat: hf.chatCompletion resolved with a content (lines 18-26)
BestHfReturns(text) ==
    /\ bpc = "hf"
    /\ AfterBestHf(Str(text))

\* hfChat: hf.chatCompletion rejected (lines 27-33): the next model, or null
BestHfThrows ==
    /\ bpc = "hf"
    /\ IF bHfModel < HfModels
       THEN /\ bHfModel' = bHfModel + 1
            /\ UNCHANGED <<bpc, together, hf, bResult, bOutcome, bError>>
            /\ UNCHANGED <<memVars, routerVars>>
       ELSE AfterBestHf(Null)

BestNext ==
    \/ getBestResponse
    \/ \E v \in {Str(text) : text \in ProviderTexts} \cup {Null} : TogetherReturns(v)
    \/ \E text \in ProviderTexts : BestHfReturns(text)
    \/ BestHfThrows

\* the two routers of the process side by side: calls of getBestResponse
\* and of routeQuery overlap, and both go through hfChat
BestSpec == Init /\ [][BestNext \/ RouterNext]_vars

\* ================================================================ claims
\* the characters of the turns held in the buffer (system messages are the
\* summaries, not turns); four characters make a token
HotCharacters(msgs) ==
    StrLen(Join(MapSeq(SelectSeq(msgs, LAMBDA m : m.role # "system"), LAMBDA m : m.content), << >>))

RecordReturns(t) ==
    /\ pc[t] \in {"index", "summarizeHistory", "summarize"}
    /\ pc'[t] = "idle"
    /\ outcome'[t] = "returned"

\* C1: when a saveContext call returns, and no other call is in flight,
\* the turns in the buffer sum to at most the budget of 80000 tokens,
\* summarization included.
C1_HotWithinBudget ==
    [][\A t \in Tasks :
          (RecordReturns(t) /\ \A u \in Tasks \ {t} : pc[u] = "idle") =>
              HotCharacters(messages') <= 4 * SummarizeThreshold]_vars

\* a provider attempt failed: it rejected, or answered null or ""
Failed(v) == v.kind \in {"threw", "null", "undefined"} \/ (v.kind = "string" /\ v.text = << >>)

Healthy(v) == v.kind = "string" /\ v.text # << >>

LastAttempt == attempted[Len(attempted)]

ChainExhausted ==
    /\ rOutcome # "none"
    /\ attempted # << >>
    /\ LastAttempt.provider = "geminiPro"
    /\ \A i \in 1..Len(attempted) : Failed(attempted[i].response)

\* C2: when every provider of the chain has failed, routeQuery rejects with
\* AllProvidersExhausted: it returns no empty response and passes on no
\* provider's own error.
C2_ExhaustionRaises ==
    ChainExhausted => (rOutcome = "threw" /\ rError = "AllProvidersExhausted")

\* C3: routeQuery rejects on a provider failure only once the last provider
\* of the chain, Gemini Pro, has been attempted and has failed.
C3_FailsOnlyAfterLastProvider ==
    (rOutcome = "threw" /\ rError \notin {"classifier", "TypeError"}) =>
        (LastAttempt.provider = "geminiPro" /\ Failed(LastAttempt.response))

\* C4: a rejected classifier call never makes routeQuery reject.
C4_ClassifierErrorAbsorbed == ~(rOutcome = "threw" /\ rError = "classifier")

\* C5: with requiresReasoning, once the first two providers have failed the
\* attempts are Replicate Mistral, hfChat, Gemini Pro in this order, and a
\* healthy answer of Gemini Pro is what routeQuery returns.
C5_ReasoningFallbackOrder ==
    (/\ analysis.requiresReasoning
     /\ Len(attempted) >= 2
     /\ Failed(attempted[1].response)
     /\ Failed(attempted[2].response))
    => /\ Len(attempted) = 3
       /\ attempted[1].provider = "replicateMistral"
       /\ attempted[2].provider = "hfChat"
       /\ attempted[3].provider = "geminiPro"
       /\ Healthy(attempted[3].response) =>
             /\ rOutcome = "returned"
             /\ rResponse = attempted[3].response
             /\ provider = "Google Gemini"

C5_Witness ==
    /\ analysis.requiresReasoning
    /\ Len(attempted) = 3
    /\ Failed(attempted[1].response)
    /\ Failed(attempted[2].response)
    /\ Healthy(attempted[3].response)
    /\ rOutcome = "returned"

\* some position of ctx from which the whole of msgs follows, in order
Contains(ctx, msgs) ==
    \E k \in 0..Len(ctx) :
        /\ k + Len(msgs) <= Len(ctx)
        /\ \A i \in 1..Len(msgs) : ctx[k + i] = msgs[i]

\* C6: when chat assembles the messages for the model, every message of
\* the buffer is in them with its role and text, in the buffer's order,
\* whether the search found documents, found none or failed.
C6_BufferInContext ==
    [][\A t \in Tasks : (pc[t] = "retrieve" /\ pc'[t] = "invoke") =>
          Contains(context'[t], messages)]_vars

C6_Witness ==
    \E t \in Tasks :
        /\ pc[t] = "invoke"
        /\ Len(context[t]) >= 4
        /\ context[t][1].role = "system"
        /\ context[t][1].content[1].s = "Relevant context:\n"
        /\ context[t][2] = messages[1]
        /\ context[t][2].role = "human"

\* C7: a rejected summarizing call leaves the buffer, chatHistory and the
\* counter as they were, and a saveContext that finds the counter over the
\* threshold calls summarizeHistory.
C7_FailureKeepsState ==
    [][\A t \in Tasks :
          /\ (pc[t] = "summarize" /\ outcome'[t] = "threw") =>
                /\ messages' = messages
                /\ chatHistory' = chatHistory
                /\ currentTokens' = currentTokens
          /\ (pc[t] = "index" /\ pc'[t] # "index" /\ outcome'[t] # "threw"
                 /\ OverThreshold(currentTokens')) =>
                pc'[t] = "summarizeHistory"]_vars

C7_Witness ==
    \E t \in Tasks, u \in Tasks :
        /\ outcome[t] = "threw"
        /\ error[t] = "summarize"
        /\ messages # << >>
        /\ OverThreshold(currentTokens)
        /\ pc[u] = "summarizeHistory"

\* C8: no chat call rejects because the summarizing call rejected.
C8_SummarizationAbsorbed ==
    \A t \in Tasks : ~(outcome[t] = "threw" /\ error[t] = "summarize")

\* C9: a rejected addDocuments removes nothing from the buffer, the
\* counter grows by the turn's tokens, the threshold is checked, and
\* saveContext goes on: it returns, or it calls summarizeHistory when the
\* counter is over the threshold.
C9_IndexFailureAbsorbed ==
    [][\A t \in Tasks : (pc[t] = "index" /\ indexFailed'[t]) =>
          /\ messages' = messages
          /\ chatHistory' = chatHistory
          /\ currentTokens' = currentTokens + StrLen(input[t]) + StrLen(response[t])
          /\ outcome'[t] # "threw"
          /\ IF currentTokens' > 4 * SummarizeThreshold
             THEN pc'[t] = "summarizeHistory"
             ELSE pc'[t] = "idle" /\ outcome'[t] = "returned"]_vars

C9_Witness ==
    \E t \in Tasks :
        /\ indexFailed[t]
        /\ outcome[t] = "returned"
        /\ Len(messages) >= 2
        /\ currentTokens > 0
        /\ vectorStore = << >>

IsSummaryMessage(m) == m.role = "system" /\ m.content[1] = SummaryPrefix[1]

IsSummaryEntry(item) == item.input = <<P("SUMMARY", 7)>>

\* C10: the buffer holds at most one summary message and chatHistory at
\* most one SUMMARY entry.
C10_AtMostOneSummary ==
    /\ Cardinality({i \in DOMAIN messages : IsSummaryMessage(messages[i])}) <= 1
    /\ Cardinality({i \in DOMAIN chatHistory : IsSummaryEntry(chatHistory[i])}) <= 1

\* a saveContext call between its first update (the pushes of lines 50-57)
\* and its last (line 74, or lines 101-111 when it summarizes)
InRecord(t) == pc[t] \in {"index", "summarizeHistory", "summarize"}

\* C11: saveContext calls on the one memory serialize: at most one call is
\* between its first and its last update, so none reads or writes the
\* buffer, the summary or the counter in the middle of another, and at most
\* one summarizing call is in flight.
C11_RecordsSerialize ==
    /\ Cardinality({t \in Tasks : InRecord(t)}) <= 1
    /\ Cardinality({t \in Tasks : pc[t] = "summarize"}) <= 1

\* HistoryLine over a whole chatHistory (lines 81-83)
RenderHistory(hist) == Join(MapSeq(hist, HistoryLine), <<P("\n\n", 2)>>)

RECURSIVE TurnTokens(_)
TurnTokens(hist) ==
    IF hist = << >> THEN 0
    ELSE StrLen(Head(hist).input) + StrLen(Head(hist).output) + TurnTokens(Tail(hist))

\* the summarizing call of t resolves while chatHistory is what t captured
\* followed by the turns recorded since, every other call having returned
SummaryCompletesAfter(t, k) ==
    /\ pc[t] = "summarize"
    /\ outcome'[t] = "returned"
    /\ \A u \in Tasks \ {t} : pc[u] = "idle"
    /\ k < Len(chatHistory)
    /\ history[t] = RenderHistory(SubSeq(chatHistory, 1, k))

\* C12: the turns recorded while a summarizing call is in flight are still
\* in the buffer and in chatHistory when it completes, and the counter
\* still counts their tokens on top of the summary's.
C12_TurnsDuringSummaryKept ==
    [][\A t \in Tasks : \A k \in 1..Len(chatHistory) :
          SummaryCompletesAfter(t, k) =>
             LET since == SubSeq(chatHistory, k + 1, Len(chatHistory)) IN
             /\ \A i \in 1..Len(since) :
                   /\ \E j \in 1..Len(chatHistory') : chatHistory'[j] = since[i]
                   /\ \E j \in 1..Len(messages') : messages'[j] = HumanMessage(since[i].input)
                   /\ \E j \in 1..Len(messages') : messages'[j] = AIMessage(since[i].output)
             /\ currentTokens' >= StrLen(chatHistory'[1].output) + TurnTokens(since)]_vars

EmptyMem == [messages |-> << >>, chatHistory |-> << >>, currentTokens |-> 0]

\* C14: clear is idempotent: from every state the memory can be in,
\* clearing twice leaves what clearing once leaves, which is an empty
\* buffer with no summary and a counter of zero; clear has no failing path.
C14_ClearIdempotent ==
    /\ Cleared(Cleared(Mem)) = Cleared(Mem)
    /\ Cleared(Mem) = EmptyMem

\* clear has acted on a memory that had recorded a turn
C14_Witness ==
    /\ Mem = EmptyMem
    /\ vectorStore # << >>

IsPrefix(s, t) == Len(s) <= Len(t) /\ SubSeq(t, 1, Len(s)) = s

\* C15: clear resets the buffer and the counter only: a step that empties
\* them leaves the vector store as it was, no step removes an entry of the
\* store, so a later chat call still retrieves the entries written before.
C15_ClearKeepsCold ==
    [][/\ (Mem # EmptyMem /\ Mem' = EmptyMem) => vectorStore' = vectorStore
       /\ IsPrefix(vectorStore, vectorStore')]_vars

\* a chat call started after clear builds its context from an entry written
\* before it: the buffer contributes nothing, the store does
C15_Witness ==
    \E t \in Tasks :
        /\ pc[t] = "invoke"
        /\ Len(context[t]) = 2
        /\ context[t][1] = ContextMessage(JoinResults(vectorStore))
        /\ vectorStore # << >>
        /\ Mem = EmptyMem
        /\ \A u \in Tasks \ {t} : pc[u] = "idle"

\* C16: the write to the vector store is fire-and-forget: a chat call whose
\* model has answered and whose write to the store is still pending has
\* already returned; no call is held back by addDocuments.
C16_IndexWriteNotAwaited ==
    \A t \in Tasks : pc[t] = "index" => outcome[t] = "returned"

\* a system message carrying retrieved entries
IsContextMessage(m) ==
    /\ m.role = "system"
    /\ m.content # << >>
    /\ m.content[1] = P("Relevant context:\n", 18)

\* C17: the context handed to the model lists the summary first, then the
\* buffer in order, then the retrieved entries: at the step that builds
\* it, every buffer message precedes the message carrying the retrieved
\* entries, which number at most TopK.
C17_ContextOrder ==
    [][\A t \in Tasks :
          (pc[t] = "retrieve" /\ pc'[t] = "invoke") =>
             \A i \in 1..Len(context'[t]) :
                IsContextMessage(context'[t][i]) =>
                   /\ i > Len(messages)
                   /\ SubSeq(context'[t], 1, Len(messages)) = messages]_vars

\* an attempt that counts as a failure: an error, a timeout, or an answer
\* that is absent, empty or blank
ExplicitlyFailed(v) ==
    \/ v.kind \in {"threw", "timeout", "null", "undefined"}
    \/ v.kind = "string" /\ Trim(v.text) = << >>

\* C18: a provider is attempted only after every provider before it in the
\* chain failed (error, timeout, empty or blank answer), and the answer
\* routeQuery returns is the first one that is neither empty nor blank:
\* an answer of whitespace only counts as a failure.
C18_FirstNonBlankEndsChain ==
    /\ \A i \in 1..(Len(attempted) - 1) : ExplicitlyFailed(attempted[i].response)
    /\ rOutcome = "returned" =>
          /\ rResponse = LastAttempt.response
          /\ ~ExplicitlyFailed(rResponse)

\* what routeQuery hands back (lines 119-124)
RoutingDecision ==
    [response |-> rResponse, model |-> modelName, analysis |-> analysis,
     provider |-> provider]

\* the attempts a caller can learn from the value returned: the one
\* provider it names
RecordedAttempts(decision) == <<[provider |-> decision.provider, model |-> decision.model]>>

\* C19: every provider attempt of a request, failed or not, is recorded:
\* when routeQuery returns, the record holds as many attempts as providers
\* were called.
C19_EveryAttemptRecorded ==
    rOutcome = "returned" =>
        Len(RecordedAttempts(RoutingDecision)) = Len(attempted)

\* C20: a provider call that timed out is treated as a failed one: the
\* router has gone on to the next provider or routeQuery has completed.
C20_TimeoutAdvances ==
    \A i \in 1..Len(attempted) :
        attempted[i].response = TimedOut =>
            (i < Len(attempted) \/ rOutcome # "none")

InStore(doc, store) == \E j \in 1..Len(store) : store[j] = doc

\* C13: when the summarizing call that the threshold triggered completes,
\* the summary is not empty, and every turn it drops from the buffer (a
\* human message and its answer before the last KeepMessages messages) has
\* its text in a document of the vector store.
C13_SummarizedTurnsInCold ==
    [][\A t \in Tasks :
          (pc[t] = "summarize" /\ outcome'[t] = "returned") =>
             /\ chatHistory'[1].output # << >>
             /\ \A i \in 1..(Len(messages) - KeepMessages) :
                   messages[i].role = "human" =>
                      InStore(Conversation(messages[i].content, messages[i + 1].content),
                              vectorStore')]_vars

\* C21: the buffer is per session: the step at which a chat call records
\* its turn leaves the buffer of every other session as it was.
C21_SessionsIsolated ==
    [][\A t \in Tasks :
          (pc[t] = "invoke" /\ pc'[t] = "index") =>
             \A u \in Tasks :
                sessionId(u) # sessionId(t) =>
                   HotBuffer(sessionId(u))' = HotBuffer(sessionId(u))]_vars

\* C22: when the classifier answers with something that is not one of the
\* records it is asked for, the analysis is exactly the default record and
\* the first provider called is hfChat, the head of the medium chain.
C22_UnparsableGivesDefault ==
    (analysis \notin Analyses /\ analysis # NoAnalysis) =>
        /\ analysis = DefaultAnalysis
        /\ attempted # << >>
        /\ attempted[1].provider = "hfChat"

\* the chain the classification selects, by the priority of the claim
ChainOf(a) ==
    IF a.requiresReasoning \/ a.complexity = "complex"
    THEN <<"replicateMistral", "hfChat", "geminiPro">>
    ELSE IF a.type = "technical" \/ a.complexity = "medium"
    THEN <<"hfChat", "replicateChat", "geminiPro">>
    ELSE <<"geminiFlash", "geminiPro">>

\* C23: the providers called for a request are, in order, the first ones
\* of the chain its classification selects: the reasoning chain when
\* requiresReasoning or complexity = complex (whatever the type), else the
\* mid-tier chain when type = technical or complexity = medium, else the
\* fast chain; no request starts two chains.
C23_ChainByPriority ==
    /\ Len(attempted) <= Len(ChainOf(analysis))
    /\ \A i \in 1..Len(attempted) : attempted[i].provider = ChainOf(analysis)[i]

\* a classification that meets both the reasoning and the mid-tier test
\* went to the reasoning chain
C23_Witness ==
    /\ analysis.requiresReasoning
    /\ analysis.type = "technical"
    /\ analysis.complexity = "medium"
    /\ attempted # << >>
    /\ attempted[1].provider = "replicateMistral"

\* the model and provider names routeQuery gives each provider call
\* (lines 71-73, 79-80, 87-89, 95-96, 103-105, 113-114)
NamesOf(name) ==
    CASE name = "replicateMistral" -> [model |-> "Mistral-7B (Replicate)", provider |-> "Replicate"]
      [] name = "hfChat" -> [model |-> "Llama-3.3-70B (HuggingFace)", provider |-> "HuggingFace"]
      [] name = "replicateChat" -> [model |-> "Llama-2-70B (Replicate)", provider |-> "Replicate"]
      [] name = "geminiFlash" -> [model |-> "Gemini Flash", provider |-> "Google Gemini"]
      [] name = "geminiPro" -> [model |-> "Gemini Pro (Fallback)", provider |-> "Google Gemini"]

\* C24: when routeQuery returns, the response is the answer of the last
\* provider called and the model and provider fields of the result are
\* the names of that provider, whatever the classification and whichever
\* providers failed before.
C24_ResultNamesAnsweringProvider ==
    rOutcome = "returned" =>
        /\ RoutingDecision.response = LastAttempt.response
        /\ RoutingDecision.model = NamesOf(LastAttempt.provider).model
        /\ RoutingDecision.provider = NamesOf(LastAttempt.provider).provider

\* routeQuery returned the answer of Gemini Pro after two providers failed
C24_Witness ==
    /\ rOutcome = "returned"
    /\ Len(attempted) = 3
    /\ Failed(attempted[1].response)
    /\ Failed(attempted[2].response)
    /\ Healthy(LastAttempt.response)
    /\ provider = "Google Gemini"

RECURSIVE LeadingSummaries(_)
LeadingSummaries(msgs) ==
    IF msgs # << >> /\ Head(msgs).role = "system"
    THEN 1 + LeadingSummaries(Tail(msgs))
    ELSE 0

\* human and ai messages alternating, a human message first, an ai
\* message last
CompletePairs(msgs) ==
    /\ Len(msgs) % 2 = 0
    /\ \A i \in 1..Len(msgs) :
          msgs[i].role = (IF i % 2 = 1 THEN "human" ELSE "ai")

\* C25: the buffer is always some summary system messages followed only
\* by complete (human, ai) pairs: neither the pushes of saveContext nor the
\* keep-last-KeepMessages truncation of summarizeHistory nor clear leaves a
\* human message without its answer.
C25_BufferIsSummariesThenPairs ==
    CompletePairs(SubSeq(messages, LeadingSummaries(messages) + 1, Len(messages)))

\* a summarization has truncated the buffer: a summary and the last
\* KeepMessages messages
C25_Witness ==
    /\ Len(messages) = KeepMessages + 1
    /\ LeadingSummaries(messages) = 1
    /\ \A t \in Tasks : pc[t] = "idle"

\* the record of line 20
AllModelsFailed == [reply |-> Str(<<P("All models failed", 17)>>), model |-> "None"]

\* C26: getBestResponse never throws and returns the first non-empty reply
\* of Together, then HuggingFace, with the matching label; when every
\* provider failed it returns the record of "All models failed".
C26_BestAlwaysReturns ==
    /\ bOutcome # "threw"
    /\ (bOutcome = "returned" /\ ~Not(together)) =>
          bResult = [reply |-> together, model |-> "Together AI"]
    /\ (bOutcome = "returned" /\ Not(together) /\ ~Not(hf)) =>
          bResult = [reply |-> hf, model |-> "HuggingFace"]
    /\ (bpc = "idle" /\ together # Undefined /\ Not(together) /\ hf # Undefined /\ Not(hf)) =>
          (bOutcome = "returned" /\ bResult = AllModelsFailed)

\* C27: saveContext calls summarizeHistory exactly when the counter, the
\* new turn added, exceeds the threshold; a call is in summarizeHistory only
\* by that way, and one that leaves the counter at or below the threshold
\* has changed the buffer only by appending its turn.
C27_SummarizeIffOverThreshold ==
    [][\A t \in Tasks :
          /\ (pc[t] = "invoke" /\ pc'[t] = "index") =>
                messages' = messages \o <<HumanMessage(input[t]), AIMessage(response'[t])>>
          /\ (pc[t] = "index" /\ pc'[t] # "index") =>
                /\ pc'[t] = "summarizeHistory" <=> currentTokens' > 4 * SummarizeThreshold
                /\ pc'[t] # "summarizeHistory" => (pc'[t] = "idle" /\ outcome'[t] = "returned")
                /\ messages' = messages
                /\ chatHistory' = chatHistory
          /\ (pc'[t] = "summarizeHistory" /\ pc[t] # "summarizeHistory") => pc[t] = "index"
          /\ (pc'[t] = "summarize" /\ pc[t] # "summarize") => pc[t] = "summarizeHistory"]_vars

\* a call has returned leaving the counter at the threshold exactly, the
\* buffer holding its turn and no summary
C27_Witness ==
    /\ pc[1] = "idle"
    /\ outcome[1] = "returned"
    /\ currentTokens = 4 * SummarizeThreshold
    /\ Len(messages) = 2
    /\ LeadingSummaries(messages) = 0

WrappedProviders == {"replicateMistral", "hfChat", "replicateChat"}

\* C28: hfChat and replicateChat never throw: routeQuery never rejects with
\* an error of theirs, none of their calls is answered by a rejection,
\* hfChat answers null only once its three models have been tried in order,
\* and an attempt answered null is followed by the next provider of the
\* chain.
C28_WrappedProvidersNeverThrow ==
    /\ rError \notin {"replicateChat", "hfChat"}
    /\ hfModel \in 0..HfModels
    /\ \A i \in 1..Len(attempted) :
          attempted[i].provider \in WrappedProviders =>
             /\ attempted[i].response # Threw
             /\ attempted[i].response = Null =>
                   /\ i < Len(attempted)
                   /\ attempted[i + 1].provider = ChainOf(analysis)[i + 1]
                   /\ attempted[i].provider = "hfChat" => hfModel = HfModels

\* both wrapped providers of the mid-tier chain failed with an error and
\* the chain went on to Gemini Pro
C28_Witness ==
    /\ Len(attempted) = 3
    /\ attempted[1].provider = "hfChat"
    /\ attempted[1].response = Null
    /\ attempted[2].provider = "replicateChat"
    /\ attempted[2].response = Null
    /\ attempted[3].provider = "geminiPro"

====
